---- MODULE Spec2Model ----
(***************************************************************************)
(* DoPilot: the LangGraph pipeline of src/agent/graph.py (planner,         *)
(* architect, coder loop, security audit, security fixer, final            *)
(* verification) run under a caller-supplied recursion limit, and the      *)
(* sliding-window RateLimiter of src/agent/rate_limiter.py.                *)
(*                                                                         *)
(* Both graphs are built with StateGraph(dict): the state is one root      *)
(* value and the dict a node returns REPLACES it, so a key that a node     *)
(* does not return is absent for the next node.  A state dict is a record  *)
(* with every key the code uses; None marks an absent key.                 *)
(***************************************************************************)
EXTENDS Integers, Sequences, FiniteSets, TLC

\* ---------------------------------------------------------------- bounds
MaxFiles == 2        \* most files in a plan, most steps in a task plan
MaxIssues == 6       \* most findings of a scan or of the audit's response
MaxQuestions == 2    \* most questions the clarifying call returns
RecursionLimit == 9  \* the caller's recursion_limit (100 in main.py, 500 in app.py)
MaxAttempts == 2     \* largest security_attempts a state handed to the audit carries
MaxCallsPerMinute == 2  \* max_calls_per_minute of the limiters
MaxTime == 130       \* the clock stops here
MaxAdmitted == 4     \* admissions recorded per limiter
MaxRetryDelay == 3   \* largest retry_delay seconds a provider error carries
MaxIssued == 5       \* generation calls followed at the call sites
MaxScanFiles == 1    \* most files under the project root
MaxLines == 2        \* most lines of a file
MaxRuns == 2         \* pipeline runs in one process
MaxText == 3         \* longest text handed to enforce_character_limit
MaxRetries == 3      \* retry counts told apart in a run without a step limit

\* ------------------------------------------------------------- constants
Window == 60         \* seconds a recorded call stays in the window
Buffer == 2          \* seconds wait_time adds
Providers == {"gemini", "groq"}
\* the steps the clock makes between two calls, in seconds
Deltas == {10, 50}

None == -1
Raises == -2         \* a generation call that raises instead of returning

Min(a, b) == IF a < b THEN a ELSE b

\* CoderState (states.py): task_plan is the number of implementation steps
NoCoderState == [task_plan |-> None, current_step_idx |-> None, retry_attempts |-> None]

\* the state dict with no key set
EmptyState ==
  [ user_prompt |-> FALSE, optimized_prompt |-> FALSE,
    questions |-> None, skip_questions |-> FALSE,
    plan |-> None, task_plan |-> None, coder_state |-> NoCoderState,
    status |-> "", security_validation |-> None, security_attempts |-> None ]

END == "END"
Nodes == {"prompt_optimizer", "planner", "architect", "coder", "security",
          "security_fixer", "final_verification"}

VARIABLES
  node,      \* the node the graph runs next, or END
  state,     \* the state dict handed to that node
  steps,     \* node executions so far in this run
  fatal,     \* "none", or the exception that unwound to the caller of invoke
  outcome,   \* history: what the last node execution did
  runs,      \* history: executions per node
  writes,    \* history: task indices whose file write_file acknowledged in coding
  gen_calls, \* history: task indices for which llm.invoke was called in coding
  fix_calls, \* history: fixes attempted by the security fixer
  fix_writes, \* history: fixes whose corrected file was written
  backoff,   \* history: the last exception coder_agent caught and the sleep it chose
  audit      \* history: the last audit: the findings it handed on, and the scanner's
             \* count when its validation call failed

pipeVars == <<node, state, steps, fatal, outcome, runs, writes, gen_calls,
              fix_calls, fix_writes, backoff, audit>>

VARIABLES
  now,       \* time.time(), in seconds
  calls,     \* calls[p]: the list RateLimiter.calls of provider p's limiter
  admitted,  \* history: admitted[p]: times of all calls p's limiter admitted
  last_call  \* history: the last limiter call and what it returned

limVars == <<now, calls, admitted, last_call>>

VARIABLES
  RATE_LIMIT_DISABLED,  \* rate_limiter.py: the DISABLE_RATE_LIMITING flag, read at import
  MODEL_PROVIDER,       \* graph.py: the MODEL_PROVIDER setting, read at import
  issued     \* history: the last generation call and the check its call site made

genVars == <<RATE_LIMIT_DISABLED, MODEL_PROVIDER, issued>>

VARIABLES
  project,   \* the tree under PROJECT_ROOT that the scanner is given
  security_scan  \* what scan_project_security returned for it, or NoScan

scanVars == <<project, security_scan>>

VARIABLES
  pipelines,   \* pipelines[r]: the state dict of run r, for runs sharing the process
  last_run,    \* history: the run whose stage executed last
  admitted_by  \* history: admitted_by[i]: the run whose check was admission i

runVars == <<pipelines, last_run, admitted_by>>

VARIABLES
  text,        \* the text argument of enforce_character_limit
  max_chars,   \* its max_chars argument
  limited,     \* what the last application returned
  applied      \* applications so far: the second is made on the result of the first

textVars == <<text, max_chars, limited, applied>>

VARIABLES
  pc,          \* pc[t]: where thread t stands in RateLimiter.can_proceed
  frame        \* frame[t]: its current_time and the list its comprehension built

threadVars == <<pc, frame>>

VARIABLES
  issue_times  \* history: the times at which llm.invoke was called

issueVars == <<issue_times>>

VARIABLES
  PROJECT_ROOT,  \* tools.py: the module's global PROJECT_ROOT
  stage,         \* stage[r]: the stage run r executes next
  selected,      \* history: selected[r]: the root the planning stage of run r set
  touched        \* history: touched[r]: the roots under which run r wrote or scanned

rootVars == <<PROJECT_ROOT, stage, selected, touched>>

\* the variables of the specifications beside the pipeline
sideVars == <<textVars, threadVars, issueVars, rootVars>>
vars == <<pipeVars, limVars, genVars, scanVars, runVars, sideVars>>

\* ----------------------------------------------------------- RateLimiter
Fresh_long(t) == now - t < Window + 10

\* a recorded call that is not older than one minute
Fresh(t) == now - t < Window

\* self.calls = [t for t in self.calls if current_time - t < 60]
Prune(seq) == SelectSeq(seq, Fresh)

AtLimit_off_by_one(n) == n > MaxCallsPerMinute

\* len(self.calls) >= self.max_calls
AtLimit(n) == n >= MaxCallsPerMinute

RECURSIVE SeqMin(_)
SeqMin(seq) ==
  IF Len(seq) = 1 THEN seq[1]
  ELSE Min(seq[1], SeqMin(Tail(seq)))

Max(a, b) == IF a > b THEN a ELSE b

Recorded_always(kept, ok) == Append(kept, now)

\* the list can_proceed leaves: current_time is appended only on admission
Recorded(kept, ok) == IF ok THEN Append(kept, now) ELSE kept

WaitFor_no_buffer(kept) == Max(0, Window - (now - SeqMin(kept)))

\* max(0.0, (60 - time_since_oldest) + 2), with oldest_call = min(self.calls)
WaitFor(kept) == Max(0, (Window - (now - SeqMin(kept))) + Buffer)

can_proceed(p) ==
  /\ Len(admitted[p]) < MaxAdmitted
  /\ LET kept == Prune(calls[p])
         ok == ~AtLimit(Len(kept))
     IN /\ calls' = [calls EXCEPT ![p] = Recorded(kept, ok)]
        /\ admitted' = [admitted EXCEPT ![p] = IF ok THEN Append(@, now) ELSE @]
        /\ last_call' = [op |-> "can_proceed", provider |-> p, can |-> ok, wait |-> 0,
                         at |-> now]
  /\ UNCHANGED <<now, pipeVars, genVars, scanVars, runVars, sideVars>>

wait_time(p) ==
  /\ last_call.op = "can_proceed"      \* asked once after a check, as the callers do
  /\ IF calls[p] = <<>>
     THEN /\ last_call' = [op |-> "wait_time", provider |-> p, can |-> last_call.can, wait |-> 0,
                               at |-> now]
          /\ UNCHANGED calls
     ELSE LET kept == Prune(calls[p])
          IN /\ calls' = [calls EXCEPT ![p] = kept]
             /\ last_call' = [op |-> "wait_time", provider |-> p, can |-> last_call.can,
                        wait |-> IF Len(kept) < MaxCallsPerMinute THEN 0
                                 ELSE WaitFor(kept),
                        at |-> now]
  /\ UNCHANGED <<now, admitted, pipeVars, genVars, scanVars, runVars, sideVars>>

\* time passes between two calls
Tick ==
  /\ \E d \in Deltas :
       /\ now + d <= MaxTime
       /\ now' = now + d
  /\ UNCHANGED <<calls, admitted, last_call, pipeVars, genVars, scanVars, runVars, sideVars>>

InitLimiters ==
  /\ now = 0
  /\ calls = [p \in Providers |-> <<>>]
  /\ admitted = [p \in Providers |-> <<>>]
  /\ last_call = [op |-> "none", provider |-> "gemini", can |-> TRUE, wait |-> 0, at |-> 0]

\* the process runs one pipeline: no other run's state exists
OneRun ==
  /\ pipelines = <<>>
  /\ last_run = 0
  /\ admitted_by = <<>>

\* enforce_character_limit has not been called
NoText ==
  /\ text = <<>>
  /\ max_chars = 0
  /\ limited = <<>>
  /\ applied = 0

\* no thread is inside can_proceed
NoThreads ==
  /\ pc = <<>>
  /\ frame = <<>>

\* the calls of llm.invoke are not timed
Untimed == issue_times = <<>>

\* PROJECT_ROOT = pathlib.Path.cwd() / "generated_project", and no run of the
\* process is followed
DefaultRoot ==
  /\ PROJECT_ROOT = "generated_project"
  /\ stage = <<>>
  /\ selected = <<>>
  /\ touched = <<>>

SideIdle == NoText /\ NoThreads /\ Untimed /\ DefaultRoot

\* no generation call issued yet
NoneIssued == [n |-> 0, site |-> "none", checked |-> FALSE, provider |-> "none",
               can |-> FALSE, check_at |-> 0, at |-> 0]

\* the settings of a default installation: limiting on, provider gemini
InitSettings ==
  /\ RATE_LIMIT_DISABLED = FALSE
  /\ MODEL_PROVIDER = "gemini"
  /\ issued = NoneIssued

\* --------------------------------------------------------------- scanner
\* a line of a file: whether it begins, after whitespace, with '#' or '//',
\* and the family of the pattern with a match that starts on it, if any:
\* SECURITY_PATTERNS ("secret") or SECURITY_CHECKS ("vuln")
LineKinds == [comment : BOOLEAN, rule : {"none", "secret", "vuln"}]

RECURSIVE SeqsUpTo(_, _)
SeqsUpTo(S, n) ==
  IF n = 0 THEN {<<>>}
  ELSE LET shorter == SeqsUpTo(S, n - 1)
       IN shorter \cup {Append(q, x) : q \in shorter, x \in S}

\* a file under the root, by what the scanner can do with it: "source" has a
\* suffix of `extensions` and can be read, "other_suffix" has another suffix
\* (.html, .env, .json, ...), "unreadable" has a suffix of `extensions` and
\* open() or read() raises (no permission, bytes that are not UTF-8)
FileKinds == {"source", "other_suffix", "unreadable"}

\* a file of at most n lines: its kind and its lines
Files(n) == [kind : FileKinds, lines : SeqsUpTo(LineKinds, n)]

RECURSIVE Trees(_, _)
\* the files PROJECT_ROOT.rglob('*') yields, in its order: at most nf files
\* with at most nl lines between them
Trees(nf, nl) ==
  IF nf = 0 THEN {<<>>}
  ELSE {<<>>} \cup UNION {{<<f>> \o t : t \in Trees(nf - 1, nl - Len(f.lines))} : f \in Files(nl)}

Listed_any_suffix(f) == TRUE

\* file_path.is_file() and file_path.suffix in extensions
Listed(f) == f.kind /= "other_suffix"

\* open(file_path, 'r', encoding='utf-8') and f.read() return
Reads(f) == f.kind /= "unreadable"

NoProject == [exists |-> FALSE, files |-> <<>>]
NoScan == [issues |-> <<>>, passed |-> FALSE, total_issues |-> None]

\* no scanner input in the specifications that do not scan
NothingScanned ==
  /\ project = NoProject
  /\ security_scan = NoScan

Excluded_secrets_only(line, family) == line.comment /\ family = "secret"

\* line_content.strip().startswith('#') or ...startswith('//'): the test is
\* made in the loop over SECURITY_PATTERNS and in the loop over SECURITY_CHECKS
Excluded(line, family) == line.comment

Severity_flat(family) == "HIGH"

\* 'HIGH' in the first loop, 'MEDIUM' in the second
Severity(family) == IF family = "secret" THEN "HIGH" ELSE "MEDIUM"

\* the issues one loop of scan_file_security appends for file number k
FamilyIssues(f, k, family) ==
  LET Hit(i) == f.lines[i].rule = family /\ ~Excluded(f.lines[i], family)
      hits == SelectSeq([i \in 1 .. Len(f.lines) |-> i], Hit)
  IN [j \in 1 .. Len(hits) |->
        [file |-> k, line |-> hits[j], category |-> family, severity |-> Severity(family)]]

\* scan_file_security: the loop over SECURITY_PATTERNS, then the loop over
\* SECURITY_CHECKS; an exception of open or read is swallowed before any
\* issue was appended
scan_file_security(f, k) ==
  IF Reads(f)
  THEN FamilyIssues(f, k, "secret") \o FamilyIssues(f, k, "vuln")
  ELSE <<>>

RECURSIVE all_issues(_, _)
\* the issues of files k .. Len(files), in rglob order
all_issues(files, k) ==
  IF k > Len(files) THEN <<>>
  ELSE (IF Listed(files[k]) THEN scan_file_security(files[k], k) ELSE <<>>)
         \o all_issues(files, k + 1)

\* the dict scan_project_security returns
scan_result(p) ==
  IF ~p.exists
  THEN [issues |-> <<>>, passed |-> TRUE, total_issues |-> 0]
  ELSE LET found == all_issues(p.files, 1)
       IN [issues |-> found, passed |-> (Len(found) = 0), total_issues |-> Len(found)]

scan_project_security ==
  /\ security_scan = NoScan
  /\ security_scan' = scan_result(project)
  /\ UNCHANGED <<project, pipeVars, limVars, genVars, runVars, sideVars>>

\* ------------------------------------------------------------- the graph
CanStep_unbounded(n) == node = n /\ fatal = "none"

\* graph.invoke runs a node only while the step count is below the limit
CanStep(n) == node = n /\ fatal = "none" /\ steps < RecursionLimit

Ran(n) == /\ steps' = steps + 1
          /\ runs' = [runs EXCEPT ![n] = @ + 1]
          /\ UNCHANGED <<limVars, genVars, scanVars, runVars, sideVars>>

\* an exception raised by node n unwinds out of invoke
Raise(n, what) ==
  /\ Ran(n)
  /\ fatal' = what
  /\ outcome' = what
  /\ UNCHANGED <<node, state, writes, gen_calls, fix_calls, fix_writes, backoff, audit>>

route_from_optimizer_always_plans(s) == "planner"

route_from_optimizer(s) ==
  IF s.skip_questions THEN "planner"
  ELSE IF s.optimized_prompt THEN "planner"
  ELSE IF s.questions = None \/ s.questions = 0 THEN "planner"
  ELSE END

route_from_coder_eager(s) == IF s.status /= "CODING_RETRY" THEN "security" ELSE "coder"

route_from_coder_never_leaves(s) == "coder"

route_from_coder(s) == IF s.status = "CODING_DONE" THEN "security" ELSE "coder"

route_from_security_recodes(s) ==
  IF s.status = "SECURITY_PASSED" THEN "final_verification" ELSE "coder"

route_from_security(s) ==
  IF s.status = "SECURITY_PASSED" THEN "final_verification"
  ELSE IF s.status = "SECURITY_NEEDS_FIX" THEN "security_fixer"
  ELSE "final_verification"

\* ------------------------------------------------------ prompt_optimizer
\* resp: Raises (the call failed), None, or the number of questions
prompt_optimizer_agent ==
  /\ CanStep("prompt_optimizer")
  /\ \E resp \in (Raises .. MaxQuestions) :
       LET ret == IF resp = Raises \/ resp = None \/ resp = 0
                  THEN [EmptyState EXCEPT !.questions = 0, !.skip_questions = TRUE]
                  ELSE [EmptyState EXCEPT !.questions = Min(resp, 10),
                                          !.skip_questions = FALSE]
       IN /\ state' = ret
          /\ node' = route_from_optimizer(ret)
          /\ outcome' = "questions"
  /\ Ran("prompt_optimizer")
  /\ UNCHANGED <<fatal, writes, gen_calls, fix_calls, fix_writes, backoff, audit>>

\* --------------------------------------------------------------- planner
PlanRejected_none_only(resp) == resp = None

\* the responses planner_agent refuses: no Plan, or a Plan without files
PlanRejected(resp) == resp = None \/ resp = 0

\* resp: Raises, None, or the number of files of the returned Plan
planner_agent ==
  /\ CanStep("planner")
  /\ IF ~state.optimized_prompt /\ ~state.user_prompt
     THEN Raise("planner", "planner_no_prompt")   \* len(None) in enforce_character_limit
     ELSE \E resp \in (Raises .. MaxFiles) :
            IF resp = Raises THEN Raise("planner", "planner_call")
            ELSE IF PlanRejected(resp)
            THEN Raise("planner", IF resp = None THEN "planner_none" ELSE "planner_no_files")
            ELSE /\ state' = [EmptyState EXCEPT !.plan = resp]
                 /\ node' = "architect"
                 /\ outcome' = "plan"
                 /\ Ran("planner")
                 /\ UNCHANGED <<fatal, writes, gen_calls, fix_calls, fix_writes, backoff, audit>>

\* ------------------------------------------------------------- architect
\* resp: Raises, None, or the number of implementation steps of the TaskPlan;
\* the length is not compared with the plan's number of files
architect_agent ==
  /\ CanStep("architect")
  /\ IF state.plan = None
     THEN Raise("architect", "architect_no_plan")
     ELSE \E resp \in (Raises .. MaxFiles) :
            IF resp = Raises THEN Raise("architect", "architect_call")
            ELSE IF resp = None THEN Raise("architect", "architect_none")  \* len(None...)
            ELSE /\ state' = [EmptyState EXCEPT !.task_plan = resp, !.plan = state.plan]
                 /\ node' = "coder"
                 /\ outcome' = "task_plan"
                 /\ Ran("architect")
                 /\ UNCHANGED <<fatal, writes, gen_calls, fix_calls, fix_writes, backoff, audit>>

\* ----------------------------------------------------------------- coder
CoderReturn_without_plan(cs, status) ==
  [EmptyState EXCEPT !.coder_state = cs, !.status = status,
                     !.task_plan = state.task_plan]

\* the dict every return of coder_agent builds
CoderReturn(cs, status) ==
  [EmptyState EXCEPT !.coder_state = cs, !.status = status,
                     !.plan = state.plan, !.task_plan = state.task_plan]

Advance_by_two(cs) ==
  [cs EXCEPT !.retry_attempts = 0, !.current_step_idx = @ + 2]

\* the cursor after write_file has returned
Advance(cs) ==
  [cs EXCEPT !.retry_attempts = 0, !.current_step_idx = @ + 1]

Retry_skips_file(cs) ==
  [cs EXCEPT !.retry_attempts = @ + 1, !.current_step_idx = @ + 1]

Retry_gives_up(cs) ==
  IF cs.retry_attempts >= 2
  THEN [cs EXCEPT !.retry_attempts = 0, !.current_step_idx = @ + 1]
  ELSE [cs EXCEPT !.retry_attempts = @ + 1]

Retry_moves_on(cs) ==
  [cs EXCEPT !.retry_attempts = @ + 1,
             !.current_step_idx = IF @ + 1 < cs.task_plan THEN @ + 1 ELSE @]

\* the cursor in the except branch
Retry(cs) ==
  [cs EXCEPT !.retry_attempts = @ + 1]

StatusAfter_done_early(cs) ==
  IF cs.current_step_idx + 1 >= cs.task_plan THEN "CODING_DONE" ELSE "CODING_IN_PROGRESS"

\* the status after the try block has completed
StatusAfter(cs) ==
  IF cs.current_step_idx >= cs.task_plan THEN "CODING_DONE" ELSE "CODING_IN_PROGRESS"

\* the exceptions the try block of coder_agent catches
Caught == {"gen_fail", "write_fail"}

\* the CoderState an invocation works on: the one in the state, or a new one
Cursor(s) ==
  IF s.coder_state = NoCoderState
  THEN [task_plan |-> s.task_plan, current_step_idx |-> 0, retry_attempts |-> 0]
  ELSE s.coder_state

EmptyTaskPlan_ignored(cs) == FALSE

\* len(steps) == 0
EmptyTaskPlan(cs) == cs.task_plan = 0

\* no exception caught yet
NoBackoff == [retry_delay |-> None, quota |-> FALSE, retry |-> 0, wait |-> 0]

\* what the except branch reads in str(e): the seconds of a retry_delay block
\* (None without one) and whether "429" or "ResourceExhausted" occurs
Exceptions == [retry_delay : {None, 0, MaxRetryDelay}, quota : BOOLEAN]
NoException == [retry_delay |-> None, quota |-> FALSE]

Backoff_uncapped(r) == 5 * (2 ^ (r - 1))

\* min(5 * (2 ** (coder_state.retry_attempts - 1)), 120)
Backoff(r) == Min(5 * (2 ^ (r - 1)), 120)

wait_seconds_quota_first(e, r) ==
  IF e.quota THEN Backoff(r)
  ELSE IF e.retry_delay /= None THEN e.retry_delay + 2
  ELSE 5

\* wait_seconds for exception e caught with retry_attempts already r
wait_seconds(e, r) ==
  IF e.retry_delay /= None THEN e.retry_delay + 2
  ELSE IF e.quota THEN Backoff(r)
  ELSE 5

\* env: what the file system and the provider do in this invocation;
\* e: the exception of a failing generation call or write
coder_agent ==
  /\ CanStep("coder")
  /\ IF state.coder_state = NoCoderState /\ state.task_plan = None
     THEN Raise("coder", "coder_no_task_plan")
     ELSE
       LET cs == Cursor(state)
           i == cs.current_step_idx
       IN IF EmptyTaskPlan(cs)
          THEN Raise("coder", "coder_empty_task_plan")
          ELSE IF i >= cs.task_plan
          THEN /\ state' = CoderReturn(cs, "CODING_DONE")
               /\ node' = route_from_coder(state')
               /\ outcome' = "nothing_left"
               /\ Ran("coder")
               /\ UNCHANGED <<fatal, writes, gen_calls, fix_calls, fix_writes, backoff, audit>>
          ELSE \E env \in {"read_fail", "gen_fail", "write_fail", "ok"}, e \in Exceptions :
                 IF env = "read_fail"
                 THEN e = NoException /\ Raise("coder", "coder_read_file")    \* read_file is outside the try
                 ELSE /\ gen_calls' = Append(gen_calls, i)
                      /\ IF env \in Caught
                         THEN /\ state' = CoderReturn(Retry(cs), "CODING_RETRY")
                              /\ backoff' = [retry_delay |-> e.retry_delay, quota |-> e.quota,
                                             retry |-> Retry(cs).retry_attempts,
                                             wait |-> wait_seconds(e, Retry(cs).retry_attempts)]
                              /\ UNCHANGED writes
                         ELSE /\ e = NoException
                              /\ state' = CoderReturn(Advance(cs), StatusAfter(Advance(cs)))
                              /\ writes' = Append(writes, i)
                              /\ UNCHANGED backoff
                      /\ node' = route_from_coder(state')
                      /\ outcome' = env
                      /\ Ran("coder")
                      /\ UNCHANGED <<fatal, fix_calls, fix_writes, audit>>

\* -------------------------------------------------------------- security
\* no audit has run yet
NoAudit == [failed_call |-> FALSE, scan |-> None, issues |-> None]

security_attempts_get(s) == IF s.security_attempts = None THEN 0 ELSE s.security_attempts

\* the status of a failing scan, from the attempt count already incremented
FailStatus(attempts) ==
  IF attempts >= 1 THEN "SECURITY_NEEDS_FIX" ELSE "SECURITY_FAILED"

Fallback_all(scan) == scan

\* the issues of the substitute SecurityValidation: security_scan['issues'][:5]
Fallback(scan) == Min(scan, 5)

\* the dict security_agent returns for state s, a scan with `scan` findings
\* and a validation call returning Raises, None or `resp` issues
security_return(s, scan, resp) ==
  IF scan = 0
  THEN [EmptyState EXCEPT !.security_validation = 0, !.status = "SECURITY_PASSED",
                          !.security_attempts = security_attempts_get(s),
                          !.plan = s.plan, !.task_plan = s.task_plan]
  ELSE LET issues == IF resp = Raises \/ resp = None THEN Fallback(scan) ELSE resp
           attempts == security_attempts_get(s) + 1
       IN [EmptyState EXCEPT !.security_validation = issues,
                             !.status = FailStatus(attempts),
                             !.security_attempts = attempts,
                             !.plan = s.plan, !.task_plan = s.task_plan]

\* security_agent from the scan's result on: `scan` is total_issues
security_agent_on(scan) ==
  /\ CanStep("security")
  /\ \E resp \in Raises .. MaxIssues :
       /\ scan = 0 => resp = 0          \* no validation call after a passing scan
       /\ state' = security_return(state, scan, resp)
       /\ audit' = LET failed == scan > 0 /\ resp \in {Raises, None}
                   IN [failed_call |-> failed,
                       scan |-> IF failed THEN scan ELSE None,
                       issues |-> state'.security_validation]
       /\ outcome' = IF scan = 0 THEN "scan_passed" ELSE "scan_failed"
  /\ node' = route_from_security(state')
  /\ steps' = steps + 1
  /\ runs' = [runs EXCEPT !["security"] = @ + 1]
  /\ UNCHANGED <<fatal, writes, gen_calls, fix_calls, fix_writes, backoff>>
  /\ UNCHANGED <<limVars, genVars, runVars, sideVars>>

\* security_agent, whatever tree scan_project_security finds under the root
security_agent ==
  /\ \E scan \in 0 .. MaxIssues : security_agent_on(scan)
  /\ UNCHANGED scanVars

\* security_agent on the tree `project`
security_gate ==
  /\ security_scan = NoScan
  /\ security_scan' = scan_result(project)
  /\ security_agent_on(security_scan'.total_issues)
  /\ UNCHANGED project

\* -------------------------------------------------------- security_fixer
route_from_fixer_rescan == "security"

\* graph.add_edge("security_fixer", "final_verification")
route_from_fixer == "final_verification"

FixBatch_all(n) == n

\* the findings the loop visits: security_validation.issues[:5]
FixBatch(n) == Min(n, 5)

\* ok: the fixes, among those attempted, that got as far as the write
security_fixer_agent ==
  /\ CanStep("security_fixer")
  /\ IF state.security_validation = None \/ state.security_validation = 0
     THEN /\ state' = [EmptyState EXCEPT !.status = "SECURITY_PASSED",
                                         !.plan = state.plan, !.task_plan = state.task_plan]
          /\ outcome' = "no_fixes"
          /\ UNCHANGED <<fix_calls, fix_writes>>
     ELSE \E ok \in 0 .. FixBatch(state.security_validation) :
          /\ state' = [EmptyState EXCEPT !.status = "SECURITY_FIXED",
                                         !.plan = state.plan, !.task_plan = state.task_plan]
          /\ outcome' = "fixes"
          /\ fix_calls' = fix_calls + FixBatch(state.security_validation)
          /\ fix_writes' = fix_writes + ok
  /\ node' = route_from_fixer
  /\ Ran("security_fixer")
  /\ UNCHANGED <<fatal, writes, gen_calls, backoff, audit>>

\* ---------------------------------------------------- final_verification
final_verification_agent ==
  /\ CanStep("final_verification")
  /\ state' = [EmptyState EXCEPT !.status = "VERIFICATION_COMPLETE",
                                 !.plan = state.plan, !.task_plan = state.task_plan,
                                 !.coder_state = state.coder_state,
                                 !.security_validation = state.security_validation,
                                 !.security_attempts = state.security_attempts]
  /\ node' = END
  /\ outcome' = "verified"
  /\ Ran("final_verification")
  /\ UNCHANGED <<fatal, writes, gen_calls, fix_calls, fix_writes, backoff, audit>>

\* ------------------------------------------------------- recursion limit
\* invoke(..., {"recursion_limit": n}) raises once n steps did not reach END
out_of_steps ==
  /\ node \in Nodes
  /\ fatal = "none"
  /\ steps >= RecursionLimit
  /\ fatal' = "recursion_limit"
  /\ UNCHANGED <<node, state, steps, outcome, runs, writes, gen_calls, fix_calls, fix_writes,
                 backoff, audit>>
  /\ UNCHANGED <<limVars, genVars, scanVars, runVars, sideVars>>

Init ==
  /\ \E entry \in {"prompt_optimizer", "planner"} :
       /\ node = entry
       /\ state = IF entry = "prompt_optimizer"
                  THEN [EmptyState EXCEPT !.user_prompt = TRUE]
                  ELSE [EmptyState EXCEPT !.user_prompt = TRUE, !.optimized_prompt = TRUE]
  /\ steps = 0
  /\ fatal = "none"
  /\ outcome = "start"
  /\ runs = [n \in Nodes |-> 0]
  /\ writes = <<>>
  /\ gen_calls = <<>>
  /\ fix_calls = 0
  /\ fix_writes = 0
  /\ backoff = NoBackoff
  /\ audit = NoAudit
  /\ InitLimiters
  /\ InitSettings
  /\ NothingScanned
  /\ OneRun
  /\ SideIdle

Next ==
  \/ prompt_optimizer_agent
  \/ planner_agent
  \/ architect_agent
  \/ coder_agent
  \/ security_agent
  \/ security_fixer_agent
  \/ final_verification_agent
  \/ out_of_steps

Spec == Init /\ [][Next]_vars
\* the graph loop runs the next node, or raises, as long as the run has not
\* ended: invoke never waits for anything but the sleeps inside a node
FairSpec == Spec /\ WF_vars(Next)

\* ---- one RateLimiter object, called at non-decreasing times
InitLimiter ==
  /\ node = "planner"
  /\ state = [EmptyState EXCEPT !.user_prompt = TRUE, !.optimized_prompt = TRUE]
  /\ steps = 0 /\ fatal = "none" /\ outcome = "start"
  /\ runs = [n \in Nodes |-> 0]
  /\ writes = <<>> /\ gen_calls = <<>> /\ fix_calls = 0 /\ fix_writes = 0
  /\ backoff = NoBackoff
  /\ audit = NoAudit
  /\ InitLimiters
  /\ InitSettings
  /\ NothingScanned
  /\ OneRun
  /\ SideIdle

NextLimiter ==
  \/ can_proceed("gemini")
  \/ wait_time("gemini")
  \/ Tick

SpecLimiter == InitLimiter /\ [][NextLimiter]_vars

\* ---- the generation call sites of the stages, under any settings
\* the values MODEL_PROVIDER can hold; any value but "gemini" selects Groq
ModelProviders == {"gemini", "groq", "openai"}

LimiterOf_single(mp) == "gemini"

\* limiter = gemini_limiter if model_provider == "gemini" else groq_limiter
LimiterOf(mp) == IF mp = "gemini" THEN "gemini" ELSE "groq"

Bypass_never == FALSE

\* if RATE_LIMIT_DISABLED: return True, 0.0
Bypass == RATE_LIMIT_DISABLED

\* rate_limit_check(model_provider): can_proceed() and, when it refuses,
\* wait_time(), at one reading of the clock
rate_limit_check(mp) ==
  IF Bypass
  THEN /\ last_call' = [op |-> "rate_limit_check", provider |-> LimiterOf(mp),
                        can |-> TRUE, wait |-> 0, at |-> now]
       /\ UNCHANGED <<calls, admitted>>
  ELSE LET p == LimiterOf(mp)
           kept == Prune(calls[p])
           ok == ~AtLimit(Len(kept))
           left == Recorded(kept, ok)
           wait == IF left = <<>> THEN 0
                   ELSE IF Len(Prune(left)) < MaxCallsPerMinute THEN 0
                   ELSE WaitFor(Prune(left))
       IN /\ calls' = [calls EXCEPT ![p] = IF ok THEN left ELSE Prune(left)]
          /\ admitted' = [admitted EXCEPT ![p] = IF ok THEN Append(@, now) ELSE @]
          /\ last_call' = [op |-> "rate_limit_check", provider |-> p, can |-> ok,
                           wait |-> IF ok THEN 0 ELSE wait, at |-> now]

\* the stages that call llm.invoke
Sites == {"prompt_optimizer", "planner", "architect", "coder", "security",
          "security_fixer"}

CheckedSites_without_fixer == Sites \ {"security_fixer"}

\* the sites whose llm.invoke follows a rate_limit_check(MODEL_PROVIDER)
CheckedSites == Sites

\* time.sleep(wait_time + 1)
SleepFor(wait) == wait + 1

\* one generation call of a stage: the check, the sleep when the check
\* refuses, then llm.invoke; the caller's own state is left to the caller
call_site(site) ==
  /\ issued.n < MaxIssued
  /\ Len(admitted[LimiterOf(MODEL_PROVIDER)]) < MaxAdmitted
  /\ IF site \in CheckedSites
     THEN /\ rate_limit_check(MODEL_PROVIDER)
          /\ now' = IF last_call'.can THEN now ELSE now + SleepFor(last_call'.wait)
          /\ issued' = [n |-> issued.n + 1, site |-> site, checked |-> TRUE,
                        provider |-> MODEL_PROVIDER, can |-> last_call'.can,
                        check_at |-> now, at |-> now']
     ELSE /\ issued' = [n |-> issued.n + 1, site |-> site, checked |-> FALSE,
                        provider |-> "none", can |-> FALSE,
                        check_at |-> now, at |-> now]
          /\ UNCHANGED limVars
  /\ now' <= MaxTime
  /\ UNCHANGED <<pipeVars, RATE_LIMIT_DISABLED, MODEL_PROVIDER>>

\* a generation call of a stage of the one run in the process
generation_call(site) ==
  /\ call_site(site)
  /\ UNCHANGED <<scanVars, runVars, sideVars>>

InitChecks ==
  /\ node = "planner"
  /\ state = [EmptyState EXCEPT !.user_prompt = TRUE, !.optimized_prompt = TRUE]
  /\ steps = 0 /\ fatal = "none" /\ outcome = "start"
  /\ runs = [n \in Nodes |-> 0]
  /\ writes = <<>> /\ gen_calls = <<>> /\ fix_calls = 0 /\ fix_writes = 0
  /\ backoff = NoBackoff
  /\ audit = NoAudit
  /\ InitLimiters
  /\ RATE_LIMIT_DISABLED \in BOOLEAN
  /\ MODEL_PROVIDER \in ModelProviders
  /\ issued = NoneIssued
  /\ NothingScanned
  /\ OneRun
  /\ SideIdle

NextChecks ==
  \/ \E site \in Sites : generation_call(site)
  \/ Tick

SpecChecks == InitChecks /\ [][NextChecks]_vars

\* ---- several runs in one process, each in its coding loop and audit
Runs == 1 .. MaxRuns

Owner_shared(r) == 1

\* the dict that invoke threads through the nodes of run r: coder_agent and
\* security_agent read and return their `state` argument only
Owner(r) == r

\* coder_agent executed by run r on a task below the task count
run_coder(r) ==
  /\ LET s == pipelines[Owner(r)]
         cs == Cursor(s)
     IN /\ s.status \in {"", "CODING_IN_PROGRESS", "CODING_RETRY"}
        /\ cs.current_step_idx < cs.task_plan
        /\ call_site("coder")
        /\ \E env \in {"gen_fail", "ok"} :
             LET after == IF env = "ok" THEN Advance(cs) ELSE Retry(cs)
             IN pipelines' = [pipelines EXCEPT ![Owner(r)] =
                                [EmptyState EXCEPT
                                   !.coder_state = after,
                                   !.status = IF env = "ok" THEN StatusAfter(after)
                                              ELSE "CODING_RETRY",
                                   !.plan = s.plan, !.task_plan = s.task_plan]]
  /\ last_run' = r
  /\ admitted_by' = IF last_call'.can /\ ~Bypass THEN Append(admitted_by, r) ELSE admitted_by
  /\ UNCHANGED <<scanVars, sideVars>>

\* security_agent executed by run r: a passing scan, or a failing scan and
\* the validation call
run_security(r) ==
  /\ pipelines[Owner(r)].status = "CODING_DONE"
  /\ \E found \in 0 .. 1 :
       /\ pipelines' = [pipelines EXCEPT ![Owner(r)] = security_return(@, found, found)]
       /\ IF found = 0
          THEN UNCHANGED <<pipeVars, limVars, genVars, admitted_by>>
          ELSE /\ call_site("security")
               /\ admitted_by' = IF last_call'.can /\ ~Bypass THEN Append(admitted_by, r)
                                 ELSE admitted_by
  /\ last_run' = r
  /\ UNCHANGED <<scanVars, sideVars>>

InitRuns ==
  /\ node = "coder"
  /\ state = [EmptyState EXCEPT !.plan = 1, !.task_plan = 1]
  /\ steps = 0 /\ fatal = "none" /\ outcome = "start"
  /\ runs = [n \in Nodes |-> 0]
  /\ writes = <<>> /\ gen_calls = <<>> /\ fix_calls = 0 /\ fix_writes = 0
  /\ backoff = NoBackoff
  /\ audit = NoAudit
  /\ InitLimiters
  /\ InitSettings
  /\ NothingScanned
  /\ \E n \in 1 .. MaxFiles :
       pipelines = [r \in Runs |-> [EmptyState EXCEPT !.plan = n, !.task_plan = n]]
  /\ last_run = 0
  /\ admitted_by = <<>>
  /\ SideIdle

\* the runs execute back to back: the clock moves only in their sleeps
NextRuns ==
  \/ \E r \in Runs : run_coder(r)
  \/ \E r \in Runs : run_security(r)

SpecRuns == InitRuns /\ [][NextRuns]_vars

\* ---- the scanner applied to any project tree
InitScan ==
  /\ node = "security"
  /\ state = [EmptyState EXCEPT !.plan = 1, !.task_plan = 1, !.status = "CODING_DONE"]
  /\ steps = 0 /\ fatal = "none" /\ outcome = "start"
  /\ runs = [n \in Nodes |-> 0]
  /\ writes = <<>> /\ gen_calls = <<>> /\ fix_calls = 0 /\ fix_writes = 0
  /\ backoff = NoBackoff
  /\ audit = NoAudit
  /\ InitLimiters
  /\ InitSettings
  /\ OneRun
  /\ SideIdle
  /\ security_scan = NoScan
  /\ \/ project = NoProject
     \/ \E fs \in Trees(MaxScanFiles, MaxLines) : project = [exists |-> TRUE, files |-> fs]

NextScan == scan_project_security

SpecScan == InitScan /\ [][NextScan]_vars

\* ---- the security stage of a run over any project tree, to the run's end
NextGate ==
  \/ security_gate
  \/ security_fixer_agent
  \/ final_verification_agent

SpecGate == InitScan /\ [][NextGate]_vars

\* ---- the audit stage applied to any state dict a caller hands it
InitAudit ==
  /\ node = "security"
  /\ \E n \in 1 .. MaxFiles, k \in 1 .. MaxFiles, a \in None .. MaxAttempts :
       state = [EmptyState EXCEPT
                  !.plan = n, !.task_plan = k, !.status = "CODING_DONE",
                  !.coder_state = [task_plan |-> k, current_step_idx |-> k,
                                   retry_attempts |-> 0],
                  !.security_attempts = a]
  /\ steps = 0 /\ fatal = "none" /\ outcome = "start"
  /\ runs = [n \in Nodes |-> 0]
  /\ writes = <<>> /\ gen_calls = <<>> /\ fix_calls = 0 /\ fix_writes = 0
  /\ backoff = NoBackoff
  /\ audit = NoAudit
  /\ InitLimiters
  /\ InitSettings
  /\ NothingScanned
  /\ OneRun
  /\ SideIdle

NextAudit ==
  \/ security_agent
  \/ security_fixer_agent
  \/ final_verification_agent

SpecAudit == InitAudit /\ [][NextAudit]_vars

\* ---- the process before any run: no graph invoked, nothing scanned
NoPipeline ==
  /\ node = END
  /\ state = EmptyState
  /\ steps = 0 /\ fatal = "none" /\ outcome = "start"
  /\ runs = [n \in Nodes |-> 0]
  /\ writes = <<>> /\ gen_calls = <<>> /\ fix_calls = 0 /\ fix_writes = 0
  /\ backoff = NoBackoff
  /\ audit = NoAudit
  /\ InitLimiters
  /\ InitSettings
  /\ NothingScanned
  /\ OneRun

\* ---- enforce_character_limit applied to any text and limit, then to its
\* own result
Chars == {"a", "b"}
Texts == SeqsUpTo(Chars, MaxText)
\* the limit is a number of characters (3000 at the one call site)
Limits == 0 .. (MaxText + 1)

\* text[:n] of Python: the first n characters, or, for a negative n, all but
\* the last -n
SliceTo(t, n) ==
  SubSeq(t, 1, IF n >= 0 THEN Min(n, Len(t)) ELSE Max(0, Len(t) + n))

enforce_character_limit_one_more(t, m) ==
  IF Len(t) > m THEN SliceTo(t, m + 1) ELSE t

enforce_character_limit(t, m) ==
  IF Len(t) > m THEN SliceTo(t, m) ELSE t

limit_call ==
  /\ applied < 2
  /\ limited' = enforce_character_limit(IF applied = 0 THEN text ELSE limited, max_chars)
  /\ applied' = applied + 1
  /\ UNCHANGED <<text, max_chars>>
  /\ UNCHANGED <<pipeVars, limVars, genVars, scanVars, runVars, threadVars, issueVars, rootVars>>

InitText ==
  /\ NoPipeline
  /\ text \in Texts
  /\ max_chars \in Limits
  /\ limited = <<>>
  /\ applied = 0
  /\ NoThreads
  /\ Untimed
  /\ DefaultRoot

NextText == limit_call

SpecText == InitText /\ [][NextText]_vars

\* ---- a run from the coding stage on, invoked without a step limit
\* retry counts above MaxRetries are folded into MaxRetries: coder_agent reads
\* the count only to choose how long it sleeps
Folded(cs) == [cs EXCEPT !.retry_attempts = Min(@, MaxRetries)]

\* coder_agent in a run with no recursion limit in force: its executions are
\* not counted, and of the histories only the acknowledged writes are kept
coder_agent_unlimited ==
  /\ node = "coder"
  /\ fatal = "none"
  /\ LET cs == Cursor(state)
         i == cs.current_step_idx
     IN IF EmptyTaskPlan(cs)
        THEN /\ fatal' = "coder_empty_task_plan"
             /\ outcome' = "coder_empty_task_plan"
             /\ UNCHANGED <<node, state, writes, backoff>>
        ELSE IF i >= cs.task_plan
        THEN /\ state' = CoderReturn(cs, "CODING_DONE")
             /\ node' = route_from_coder(state')
             /\ outcome' = "nothing_left"
             /\ UNCHANGED <<fatal, writes, backoff>>
        ELSE \E env \in {"read_fail", "gen_fail", "write_fail", "ok"}, e \in Exceptions :
               IF env = "read_fail"
               THEN /\ e = NoException
                    /\ fatal' = "coder_read_file"
                    /\ outcome' = "coder_read_file"
                    /\ UNCHANGED <<node, state, writes, backoff>>
               ELSE /\ IF env \in Caught
                       THEN /\ state' = CoderReturn(Folded(Retry(cs)), "CODING_RETRY")
                            /\ backoff' = [retry_delay |-> e.retry_delay, quota |-> e.quota,
                                           retry |-> Folded(Retry(cs)).retry_attempts,
                                           wait |-> wait_seconds(e, Folded(Retry(cs)).retry_attempts)]
                            /\ UNCHANGED writes
                       ELSE /\ e = NoException
                            /\ state' = CoderReturn(Advance(cs), StatusAfter(Advance(cs)))
                            /\ writes' = Append(writes, i)
                            /\ UNCHANGED backoff
                    /\ node' = route_from_coder(state')
                    /\ outcome' = env
                    /\ UNCHANGED fatal
  /\ UNCHANGED <<steps, runs, gen_calls, fix_calls, fix_writes, audit>>
  /\ UNCHANGED <<limVars, genVars, scanVars, runVars, sideVars>>

\* the state the architect hands on: an accepted plan and its task plan
InitLoop ==
  /\ node = "coder"
  /\ \E n \in 1 .. MaxFiles, k \in 0 .. MaxFiles :
       state = [EmptyState EXCEPT !.plan = n, !.task_plan = k]
  /\ steps = 0 /\ fatal = "none" /\ outcome = "start"
  /\ runs = [n \in Nodes |-> 0]
  /\ writes = <<>> /\ gen_calls = <<>> /\ fix_calls = 0 /\ fix_writes = 0
  /\ backoff = NoBackoff
  /\ audit = NoAudit
  /\ InitLimiters
  /\ InitSettings
  /\ NothingScanned
  /\ OneRun
  /\ SideIdle

NextLoop ==
  \/ coder_agent_unlimited
  \/ security_agent
  \/ security_fixer_agent
  \/ final_verification_agent

SpecLoop == InitLoop /\ [][NextLoop]_vars
\* invoke runs the node selected next for as long as the run has not ended
FairLoop == SpecLoop /\ WF_vars(NextLoop)

\* ---- threads of one process inside can_proceed of the gemini limiter: the
\* method takes no lock, so a thread can be suspended between any two of its
\* statements, and between building the pruned list and storing it
Threads == 1 .. MaxRuns
Shared == "gemini"
Idle == [current_time |-> None, kept |-> <<>>]

\* current_time = time.time()
read_time(t) ==
  /\ pc[t] = "idle"
  /\ Len(admitted[Shared]) < MaxAdmitted
  /\ frame' = [frame EXCEPT ![t] = [current_time |-> now, kept |-> <<>>]]
  /\ pc' = [pc EXCEPT ![t] = "filter"]
  /\ UNCHANGED <<pipeVars, limVars, genVars, scanVars, runVars, textVars, issueVars, rootVars>>

\* [t for t in self.calls if current_time - t < 60]
filter_calls(t) ==
  /\ pc[t] = "filter"
  /\ LET Recent(c) == frame[t].current_time - c < Window
     IN frame' = [frame EXCEPT ![t].kept = SelectSeq(calls[Shared], Recent)]
  /\ pc' = [pc EXCEPT ![t] = "store"]
  /\ UNCHANGED <<pipeVars, limVars, genVars, scanVars, runVars, textVars, issueVars, rootVars>>

\* self.calls = <the list built>
store_calls(t) ==
  /\ pc[t] = "store"
  /\ calls' = [calls EXCEPT ![Shared] = frame[t].kept]
  /\ pc' = [pc EXCEPT ![t] = "test"]
  /\ UNCHANGED <<now, admitted, last_call, frame>>
  /\ UNCHANGED <<pipeVars, genVars, scanVars, runVars, textVars, issueVars, rootVars>>

\* if len(self.calls) >= self.max_calls: return False
test_limit(t) ==
  /\ pc[t] = "test"
  /\ pc' = [pc EXCEPT ![t] = IF AtLimit(Len(calls[Shared])) THEN "idle" ELSE "append"]
  /\ frame' = [frame EXCEPT ![t] = IF AtLimit(Len(calls[Shared])) THEN Idle ELSE @]
  /\ UNCHANGED <<pipeVars, limVars, genVars, scanVars, runVars, textVars, issueVars, rootVars>>

\* self.calls.append(current_time); return True
append_call(t) ==
  /\ pc[t] = "append"
  /\ calls' = [calls EXCEPT ![Shared] = Append(@, frame[t].current_time)]
  /\ admitted' = [admitted EXCEPT ![Shared] = Append(@, frame[t].current_time)]
  /\ pc' = [pc EXCEPT ![t] = "idle"]
  /\ frame' = [frame EXCEPT ![t] = Idle]
  /\ UNCHANGED <<now, last_call>>
  /\ UNCHANGED <<pipeVars, genVars, scanVars, runVars, textVars, issueVars, rootVars>>

InitThreads ==
  /\ NoPipeline
  /\ NoText
  /\ Untimed
  /\ DefaultRoot
  /\ pc = [t \in Threads |-> "idle"]
  /\ frame = [t \in Threads |-> Idle]

NextThreads ==
  \/ \E t \in Threads : read_time(t)
  \/ \E t \in Threads : filter_calls(t)
  \/ \E t \in Threads : store_calls(t)
  \/ \E t \in Threads : test_limit(t)
  \/ \E t \in Threads : append_call(t)

SpecThreads == InitThreads /\ [][NextThreads]_vars

\* ---- the generation calls of one run, with the time of each llm.invoke
\* kept; rate limiting is enabled
timed_call(site) ==
  /\ call_site(site)
  /\ issue_times' = Append(issue_times, now')
  /\ UNCHANGED <<scanVars, runVars, textVars, threadVars, rootVars>>

InitTimed ==
  /\ NoPipeline
  /\ NoText
  /\ NoThreads
  /\ DefaultRoot
  /\ issue_times = <<>>

NextTimed ==
  \/ \E site \in Sites : timed_call(site)
  \/ Tick

SpecTimed == InitTimed /\ [][NextTimed]_vars

\* ---- the runs of one process and the module's PROJECT_ROOT: a stage of one
\* run executes between two stages of another
\* the directory names set_project_root derives from the plans' names
RootNames == {"todo_app", "blog"}

RootFrame == UNCHANGED <<pipeVars, limVars, genVars, scanVars, runVars,
                         textVars, threadVars, issueVars>>

\* planner_agent: set_project_root.invoke({"project_name": resp.name})
plan_root(r) ==
  /\ stage[r] = "planner"
  /\ \E name \in RootNames :
       /\ PROJECT_ROOT' = name
       /\ selected' = [selected EXCEPT ![r] = name]
  /\ stage' = [stage EXCEPT ![r] = "coder"]
  /\ UNCHANGED touched
  /\ RootFrame

\* coder_agent: write_file resolves the task's path against PROJECT_ROOT
write_under_root(r) ==
  /\ stage[r] = "coder"
  /\ touched' = [touched EXCEPT ![r] = @ \cup {<<"write", PROJECT_ROOT>>}]
  /\ \E next \in {"coder", "security"} : stage' = [stage EXCEPT ![r] = next]
  /\ UNCHANGED <<PROJECT_ROOT, selected>>
  /\ RootFrame

\* security_agent: scan_project_security walks PROJECT_ROOT
scan_under_root(r) ==
  /\ stage[r] = "security"
  /\ touched' = [touched EXCEPT ![r] = @ \cup {<<"scan", PROJECT_ROOT>>}]
  /\ \E next \in {"security_fixer", "final_verification"} :
       stage' = [stage EXCEPT ![r] = next]
  /\ UNCHANGED <<PROJECT_ROOT, selected>>
  /\ RootFrame

\* security_fixer_agent: write_file of a corrected file
fix_under_root(r) ==
  /\ stage[r] = "security_fixer"
  /\ touched' = [touched EXCEPT ![r] = @ \cup {<<"fix", PROJECT_ROOT>>}]
  /\ stage' = [stage EXCEPT ![r] = "final_verification"]
  /\ UNCHANGED <<PROJECT_ROOT, selected>>
  /\ RootFrame

InitRoots ==
  /\ NoPipeline
  /\ NoText
  /\ NoThreads
  /\ Untimed
  /\ PROJECT_ROOT = "generated_project"
  /\ stage = [r \in Runs |-> "planner"]
  /\ selected = [r \in Runs |-> "none"]
  /\ touched = [r \in Runs |-> {}]

NextRoots ==
  \/ \E r \in Runs : plan_root(r)
  \/ \E r \in Runs : write_under_root(r)
  \/ \E r \in Runs : scan_under_root(r)
  \/ \E r \in Runs : fix_under_root(r)

SpecRoots == InitRoots /\ [][NextRoots]_vars

\* ---- calls wrapped by with_rate_limit(model_provider), for any provider
\* identifier: the check for that provider, the sleep when it refuses, then
\* the wrapped function
with_rate_limit(mp) ==
  /\ issued.n < MaxIssued
  /\ Len(admitted[LimiterOf(mp)]) < MaxAdmitted
  /\ rate_limit_check(mp)
  /\ now' = IF last_call'.can THEN now ELSE now + SleepFor(last_call'.wait)
  /\ now' <= MaxTime
  /\ issued' = [n |-> issued.n + 1, site |-> "wrapper", checked |-> TRUE,
                provider |-> mp, can |-> last_call'.can,
                check_at |-> now, at |-> now']
  /\ UNCHANGED <<pipeVars, RATE_LIMIT_DISABLED, MODEL_PROVIDER, scanVars, runVars, sideVars>>

InitWrapped ==
  /\ NoPipeline
  /\ SideIdle

\* half a window passes between two wrapped calls
pause ==
  /\ now + 30 <= MaxTime
  /\ now' = now + 30
  /\ UNCHANGED <<calls, admitted, last_call, pipeVars, genVars, scanVars, runVars, sideVars>>

NextWrapped ==
  \/ \E mp \in ModelProviders : with_rate_limit(mp)
  \/ pause

SpecWrapped == InitWrapped /\ [][NextWrapped]_vars

\* ================================================================ claims
idx(s) == s.coder_state.current_step_idx
retries(s) == s.coder_state.retry_attempts
tasks(s) == s.coder_state.task_plan
HasCursor(s) == s.coder_state /= NoCoderState

\* one execution of the coding stage
CoderStep == node = "coder" /\ steps' = steps + 1
\* the run has ended: END was reached or an exception unwound to the caller
Stopped == node = END \/ fatal /= "none"

\* ---- C1: the cursor stays within 0 .. number of tasks and never decreases
\* from one coding-stage invocation to the next.
C1_CursorInvariant ==
  /\ [](HasCursor(state) => 0 <= idx(state) /\ idx(state) <= tasks(state))
  /\ [][CoderStep /\ HasCursor(state') =>
          /\ idx(state') >= Cursor(state).current_step_idx
          /\ idx(state') <= tasks(state')]_vars

\* the cursor has reached the task count after failures and successes
C1_Witness ==
  /\ HasCursor(state)
  /\ idx(state) = 2 /\ tasks(state) = 2
  /\ Len(gen_calls) > Len(writes)

\* ---- C2 ----
Success ==
  /\ fatal' = "none"
  /\ idx(state') = Cursor(state).current_step_idx + 1
  /\ retries(state') = 0
  /\ state'.status = IF idx(state') = tasks(state') THEN "CODING_DONE"
                     ELSE "CODING_IN_PROGRESS"
TransientFailure ==
  /\ fatal' = "none"
  /\ idx(state') = Cursor(state).current_step_idx
  /\ retries(state') = Cursor(state).retry_attempts + 1
  /\ state'.status = "CODING_RETRY"
ReadAbort ==
  /\ fatal' = "coder_read_file"
  /\ state' = state
BelowCount == Cursor(state).current_step_idx < Cursor(state).task_plan

\* C2 as claimed: every coding-stage invocation on a cursor below the task
\* count ends as a success or as a transient failure.
C2_Original == [][CoderStep /\ BelowCount => Success \/ TransientFailure]_vars

\* C2 amended: every coding-stage invocation on a cursor below the task count
\* ends as a success (cursor + 1, retry count 0, status in progress, or done
\* iff the cursor equals the task count), as a transient failure (cursor
\* unchanged, retry count + 1, status retry), or, when reading the file's
\* existing content raises, as a fatal abort that leaves the state unchanged.
C2_Outcomes ==
  [][CoderStep /\ BelowCount =>
       /\ Success \/ TransientFailure \/ ReadAbort
       /\ ~(Success /\ TransientFailure)]_vars

\* a second consecutive failure on a file has been reported as a retry
C2_Witness ==
  /\ node = "coder" /\ fatal = "none"
  /\ state.status = "CODING_RETRY"
  /\ retries(state) = 2
  /\ outcome = "gen_fail"

\* ---- C3: on one limiter called at non-decreasing times, the admitted calls
\* whose timestamps lie in any trailing 60-second window (t - 60, t] number at
\* most the configured maximum.
InWindow(p, t) ==
  {i \in 1 .. Len(admitted[p]) : t - Window < admitted[p][i] /\ admitted[p][i] <= t}

C3_SlidingWindow ==
  \A p \in Providers : \A t \in 0 .. now :
     Cardinality(InWindow(p, t)) <= MaxCallsPerMinute

\* the limiter has admitted more calls than one window holds, and refuses again
C3_Witness ==
  /\ Len(admitted["gemini"]) > MaxCallsPerMinute
  /\ last_call.op = "can_proceed" /\ ~last_call.can

\* ---- C4 ----
ScanFailed == outcome = "scan_failed" \/ runs["security_fixer"] > 0

\* C4 as claimed: a run whose scan failed ends only after final verification.
C4_Original == (ScanFailed /\ Stopped) => runs["final_verification"] = 1

\* C4 amended: starting from a failing scan, the run enters remediation at most
\* once and then reaches final verification, whether or not findings remain,
\* unless the caller's recursion limit is used up first, which aborts the run;
\* no edge leads from the audit, remediation or final stage back to the audit,
\* coding or remediation stage, so the post-coding part always terminates.
C4_SingleRemediation ==
  /\ [](runs["security_fixer"] <= 1 /\ runs["security"] <= 1)
  /\ []((ScanFailed /\ Stopped) =>
          \/ runs["security_fixer"] = 1 /\ runs["final_verification"] = 1
          \/ fatal = "recursion_limit")
  /\ [][/\ node = "security" => node' \in {"security", "security_fixer", "final_verification"}
        /\ node = "security_fixer" => node' \in {"security_fixer", "final_verification"}
        /\ node = "final_verification" => node' \in {"final_verification", END}
        /\ node = END => node' = END]_vars
  /\ ScanFailed ~> (runs["final_verification"] = 1 \/ fatal = "recursion_limit")
  /\ (node = "security") ~> Stopped

\* the run has ended after one remediation pass that left findings unfixed
C4_Witness ==
  /\ node = END /\ fatal = "none"
  /\ runs["security_fixer"] = 1 /\ runs["final_verification"] = 1
  /\ fix_writes < fix_calls

\* ---- C6: the audit routes to remediation iff the scan failed and the
\* attempt count on entry is 0, and to final verification iff the scan passed
\* or the attempt count on entry is at least 1.
SecurityStep == node = "security" /\ steps' = steps + 1

C5_CoderRouting ==
  /\ [][CoderStep /\ fatal' = "none" =>
          /\ idx(state') < tasks(state') => node' = "coder"
          /\ idx(state') = tasks(state') => node' = "security"
          /\ node' \in {"coder", "security"}]_vars
  /\ [][node' = "security" /\ node /= "security" => node = "coder"]_vars
  /\ [](node = "security" => HasCursor(state) /\ idx(state) = tasks(state))

\* the audit is about to run after a two-task coding stage that had to loop
C5_Witness ==
  /\ node = "security" /\ fatal = "none"
  /\ tasks(state) = 2
  /\ runs["coder"] >= 2

\* ---- C7: a task plan that reaches the coding stage has exactly as many
\* tasks as the accepted plan has files.
C7_TaskCountEqualsFileCount ==
  (runs["architect"] > 0 /\ fatal = "none" /\ state.task_plan /= None)
     => state.task_plan = state.plan

\* ---- C8: a response without a plan, or a plan with zero files, aborts the
\* run in the planning stage: no zero-file plan is ever stored, after such an
\* abort architect and coder have never run and nothing was generated, and
\* the planner has run once.
C8_EmptyPlanIsFatal ==
  /\ state.plan /= 0
  /\ runs["architect"] > 0 => state.plan >= 1
  /\ runs["planner"] <= 1
  /\ fatal \in {"planner_none", "planner_no_files"} =>
       /\ node = "planner"
       /\ runs["planner"] = 1
       /\ runs["architect"] = 0 /\ runs["coder"] = 0
       /\ writes = <<>> /\ gen_calls = <<>>

\* the planner has aborted the run on a zero-file plan
C8_Witness == fatal = "planner_no_files" /\ runs["planner"] = 1

\* ---- C9: a failing write of the generated file aborts the run; it is not
\* turned into a retry.
C9_WriteFailureIsFatal ==
  outcome = "write_fail" =>
     /\ fatal /= "none"
     /\ state.status /= "CODING_RETRY"
     /\ retries(state) = 0

\* ---- C10 ----
\* the files written so far are exactly those before the cursor, in order
NoFileSkipped ==
  HasCursor(state) =>
     /\ Len(writes) = idx(state)
     /\ \A k \in 1 .. Len(writes) : writes[k] = k - 1

\* C10 as claimed: after a generation failure the run is never aborted, however
\* many failures came before.
C10_Original == outcome = "gen_fail" => fatal = "none"

\* C10 amended: a generation failure is never itself raised to the caller and
\* the coding stage has no retry cap: the failing invocation returns, the
\* router selects coding again on the same file with the retry count one
\* higher, and no file is skipped; the only thing that ends the retrying is
\* the caller's recursion limit, which aborts the run with its own error.
C10_RetryUntilBudget ==
  /\ [][CoderStep /\ outcome' = "gen_fail" =>
          /\ fatal' = "none"
          /\ node' = "coder"
          /\ idx(state') = Cursor(state).current_step_idx
          /\ retries(state') = Cursor(state).retry_attempts + 1]_vars
  /\ [](outcome = "gen_fail" => fatal \in {"none", "recursion_limit"})
  /\ []NoFileSkipped

\* four consecutive failures on the second file, and coding is selected again
C10_Witness ==
  /\ node = "coder" /\ fatal = "none"
  /\ outcome = "gen_fail"
  /\ idx(state) = 1
  /\ retries(state) = 4
\* ---- C11: every run executes under the caller's step budget: the stage
\* executions never exceed it, a run that has used it up without reaching END
\* stops with the limit's error raised to the caller, and a run stopped that
\* way never continues and is never reported as finished.
C11_StepBudget ==
  /\ [](steps <= RecursionLimit)
  /\ [](fatal = "recursion_limit" => steps = RecursionLimit /\ node \in Nodes)
  /\ [][fatal = "recursion_limit" => fatal' = "recursion_limit" /\ node' = node]_vars
  /\ (steps = RecursionLimit /\ node \in Nodes /\ fatal = "none")
        ~> (fatal = "recursion_limit")

\* the budget ran out in the coding loop
C11_Witness ==
  /\ fatal = "recursion_limit"
  /\ node = "coder"
  /\ steps = RecursionLimit
\* ---- C19: for quota failures without a provider retry delay the backoff is
\* 5, 10, 20, 40 seconds at retry counts 1..4 and min(5 * 2^(r-1), 120), never
\* above 120, beyond; it never decreases while the retry count grows.
QuotaBackoff(b) == b.retry >= 1 /\ b.quota /\ b.retry_delay = None
BackoffTable == <<5, 10, 20, 40>>

C19_Backoff ==
  /\ [](QuotaBackoff(backoff) =>
          /\ backoff.retry <= 4 => backoff.wait = BackoffTable[backoff.retry]
          /\ backoff.retry = 5 => backoff.wait = 80
          /\ backoff.retry >= 6 => backoff.wait = 120
          /\ backoff.wait <= 120)
  /\ [][QuotaBackoff(backoff) /\ QuotaBackoff(backoff') /\ backoff'.retry >= backoff.retry
          => backoff'.wait >= backoff.wait]_vars

\* the sixth consecutive quota failure on one file waits the capped 120 seconds
C19_Witness ==
  /\ QuotaBackoff(backoff)
  /\ outcome = "gen_fail"
  /\ backoff.retry = 6 /\ retries(state) = 6
  /\ backoff.wait = 120

\* ---- C20: the wait after a caught failure follows a fixed priority: with a
\* provider retry delay d it is d + 2 even for a quota failure; else for a
\* quota failure it is the capped exponential backoff; else it is 5 seconds
\* whatever the retry count.
C20_WaitPriority ==
  backoff.retry >= 1 =>
     /\ backoff.retry_delay /= None => backoff.wait = backoff.retry_delay + 2
     /\ (backoff.retry_delay = None /\ backoff.quota) =>
           (backoff.wait = 5 * (2 ^ (backoff.retry - 1)) \/ backoff.wait = 120)
           /\ backoff.wait <= 5 * (2 ^ (backoff.retry - 1))
           /\ backoff.wait <= 120
     /\ (backoff.retry_delay = None /\ ~backoff.quota) => backoff.wait = 5

\* a third failure that is a quota failure carrying a retry delay waits d + 2
C20_Witness ==
  /\ outcome = "gen_fail"
  /\ backoff.retry = 3
  /\ backoff.quota /\ backoff.retry_delay = MaxRetryDelay
  /\ backoff.wait = MaxRetryDelay + 2
\* ---- C12 as claimed: a generation call is issued only after an admission
\* check admitted it; a stage whose check was refused sleeps and checks again
\* before it calls.
C12_CallOnlyAfterAdmission ==
  issued.n > 0 => issued.checked /\ issued.can

\* ---- C13: every generation call of every stage is preceded, in the same
\* stage execution, by an admission check for the configured provider.
C13_CheckBeforeCall ==
  /\ [](issued.n > 0 =>
          /\ issued.site \in Sites
          /\ issued.checked
          /\ issued.provider = MODEL_PROVIDER
          /\ issued.check_at <= issued.at)
  /\ [][issued' /= issued =>
          /\ last_call'.op = "rate_limit_check"
          /\ last_call'.provider = LimiterOf(MODEL_PROVIDER)
          /\ last_call'.at = now
          /\ issued'.check_at = now /\ issued'.at = now']_vars

\* a remediation fix issued its call after a check on the Groq limiter
C13_Witness ==
  /\ issued.site = "security_fixer"
  /\ issued.checked
  /\ MODEL_PROVIDER = "groq"
  /\ last_call.provider = "groq"
  /\ issued.n = 3
\* ---- helpers for the claims about one admission check
\* the limiter the stages of this installation check
Lim == LimiterOf(MODEL_PROVIDER)
\* a step in which a stage makes its admission check, limiting switched on
CheckStep == issued'.n = issued.n + 1 /\ ~RATE_LIMIT_DISABLED
Range(seq) == {seq[i] : i \in DOMAIN seq}
Suffixes(seq) == {SubSeq(seq, k + 1, Len(seq)) : k \in 0 .. Len(seq)}

\* ---- C14 as claimed: a check removes exactly the timestamps older than 60
\* seconds (one exactly 60 seconds old stays), admits iff fewer than the
\* maximum remain, and on admission appends now and reports wait 0.
OlderThanWindow(seq) == {i \in DOMAIN seq : now - seq[i] > 60}

C14_PrunesOlderOnly ==
  [][CheckStep =>
       LET remaining == Len(calls[Lim]) - Cardinality(OlderThanWindow(calls[Lim]))
       IN /\ last_call'.can <=> remaining < MaxCallsPerMinute
          /\ Len(calls'[Lim]) = remaining + (IF last_call'.can THEN 1 ELSE 0)
          /\ last_call'.can =>
                /\ calls'[Lim][Len(calls'[Lim])] = now
                /\ last_call'.wait = 0]_vars

\* ---- C15: a refused check records no timestamp (the list only loses pruned
\* entries), an admitted check leaves the pruned list plus one entry, now.
C15_RefusalRecordsNothing ==
  [][CheckStep =>
       IF last_call'.can
       THEN /\ Len(calls'[Lim]) >= 1
            /\ calls'[Lim][Len(calls'[Lim])] = now
            /\ SubSeq(calls'[Lim], 1, Len(calls'[Lim]) - 1) \in Suffixes(calls[Lim])
            /\ admitted'[Lim] = Append(admitted[Lim], now)
       ELSE /\ calls'[Lim] \in Suffixes(calls[Lim])
            /\ admitted' = admitted]_vars

\* a full Groq limiter refused a call and still holds only the admitted ones
C15_Witness ==
  /\ issued.checked /\ ~issued.can
  /\ MODEL_PROVIDER = "openai"
  /\ Len(calls["groq"]) = MaxCallsPerMinute
  /\ Len(admitted["groq"]) = MaxCallsPerMinute
  /\ issued.n = MaxCallsPerMinute + 1

C17_DisabledBypass ==
  /\ [][RATE_LIMIT_DISABLED /\ issued'.n = issued.n + 1 =>
          /\ issued'.can
          /\ last_call'.can /\ last_call'.wait = 0
          /\ now' = now
          /\ calls' = calls]_vars
  /\ [](RATE_LIMIT_DISABLED => \A p \in Providers : calls[p] = <<>>)

\* more calls than the limit at one instant, all admitted, nothing recorded
C17_Witness ==
  /\ RATE_LIMIT_DISABLED
  /\ MODEL_PROVIDER = "groq"
  /\ issued.n > MaxCallsPerMinute + 1
  /\ issued.can
  /\ now = 0
  /\ calls["groq"] = <<>>

\* ---- C18: with M calls admitted in the last minute the next check is
\* refused with a positive wait; a check made after the caller waited that
\* long plus one second, nothing admitted meanwhile, is admitted.
AdmittedLastMinute == {i \in DOMAIN admitted[Lim] : now - admitted[Lim][i] < 60}

Returned == node = END /\ fatal = "none" /\ runs["security"] = 1

C21_AttemptCount ==
  /\ [][SecurityStep => (outcome' = "scan_failed" <=> node' = "security_fixer")]_vars
  /\ [](Returned /\ runs["security_fixer"] > 0 =>
          /\ runs["security_fixer"] = 1
          /\ runs["final_verification"] = 1
          /\ state.security_attempts = 1)
  /\ [](Returned /\ runs["security_fixer"] = 0 =>
          /\ runs["final_verification"] = 1
          /\ state.security_attempts = 0)

\* ---- C22 as claimed: a run that ends without a fatal error has passed
\* through final verification and returns a state with a plan.
C22_EndsWithPlan ==
  (node = END /\ fatal = "none") =>
     /\ runs["final_verification"] = 1
     /\ state.plan /= None

\* ---- C23: remediation attempts a fix for the first 5 findings at most (so
\* at most 5 generation calls and 5 writes), goes on after a fix that fails,
\* and is always followed by final verification.
FixerStep == node = "security_fixer" /\ steps' = steps + 1
Findings(s) == IF s.security_validation = None THEN 0 ELSE s.security_validation

C23_FixAtMostFive ==
  [][FixerStep =>
       /\ fix_calls' - fix_calls = (IF Findings(state) <= 5 THEN Findings(state) ELSE 5)
       /\ fix_writes' - fix_writes >= 0
       /\ fix_writes' - fix_writes <= fix_calls' - fix_calls
       /\ fix_calls' - fix_calls <= 5
       /\ fatal' = "none"
       /\ node' = "final_verification"]_vars

\* six findings handed over, five fixes attempted, two of them failed, and
\* final verification ran
C23_Witness ==
  /\ audit.issues = 6
  /\ fix_calls = 5
  /\ fix_writes = 3
  /\ runs["final_verification"] = 1

\* ---- C24 as claimed: after a failing scan, a validation call that raises
\* or returns nothing does not abort the run: the run goes through
\* remediation and ends in final verification.
AuditFellBack == audit.failed_call

C24_Original == (AuditFellBack /\ Stopped) => runs["final_verification"] = 1

\* ---- C24: the failed validation call raises nothing, hands remediation the
\* first 5 scanner findings at most, and selects remediation; the run then
\* goes through remediation and final verification unless the caller's
\* recursion limit is used up first.
C24_AuditFallback ==
  /\ [][SecurityStep /\ audit'.failed_call =>
          /\ fatal' = "none"
          /\ state'.security_validation = (IF audit'.scan <= 5 THEN audit'.scan ELSE 5)
          /\ node' = "security_fixer"]_vars
  /\ [](AuditFellBack /\ Stopped =>
          \/ runs["security_fixer"] = 1 /\ runs["final_verification"] = 1 /\ node = END
          \/ fatal = "recursion_limit")
  /\ AuditFellBack ~> Stopped

\* the validation call failed after a scan with six findings and the run
\* ended in final verification after five fixes
C24_Witness ==
  /\ audit.failed_call /\ audit.scan = 6
  /\ fix_calls = 5
  /\ node = END /\ fatal = "none"
  /\ runs["final_verification"] = 1

\* ---- C25: the scan returns exactly one finding for every rule match that
\* is not on a comment line, HIGH for a secret-exposure match and MEDIUM for
\* a vulnerability-pattern match, and passes iff it returns no finding.
Scanned == security_scan /= NoScan
\* the matches in the files the scanner reads: <<file, line, family>>
MatchesOf(family) ==
  {<<k, i>> \in (1 .. MaxScanFiles) \X (1 .. MaxLines) :
      /\ k <= Len(project.files)
      /\ project.files[k].kind = "source"
      /\ i <= Len(project.files[k].lines)
      /\ project.files[k].lines[i].rule = family}
OnComment(m) == project.files[m[1]].lines[m[2]].comment
FindingsOf(sev) ==
  {j \in DOMAIN security_scan.issues : security_scan.issues[j].severity = sev}
At(j) == <<security_scan.issues[j].file, security_scan.issues[j].line>>

C25_OneFindingPerMatch ==
  Scanned =>
    /\ {At(j) : j \in FindingsOf("HIGH")} = {m \in MatchesOf("secret") : ~OnComment(m)}
    /\ {At(j) : j \in FindingsOf("MEDIUM")} = {m \in MatchesOf("vuln") : ~OnComment(m)}
    /\ \A j1, j2 \in DOMAIN security_scan.issues :
          (At(j1) = At(j2) /\ security_scan.issues[j1].severity = security_scan.issues[j2].severity)
             => j1 = j2
    /\ \A j \in DOMAIN security_scan.issues :
          /\ security_scan.issues[j].severity \in {"HIGH", "MEDIUM"}
          /\ security_scan.issues[j].severity = "HIGH" <=> security_scan.issues[j].category = "secret"
    /\ security_scan.passed <=> security_scan.issues = <<>>
    /\ security_scan.total_issues = Len(security_scan.issues)

\* a file with a vulnerability on its first line and a secret on its second,
\* neither on a comment: two findings, the HIGH one first
C25_Witness ==
  /\ Scanned
  /\ Cardinality(MatchesOf("secret")) = 1
  /\ Cardinality(MatchesOf("vuln")) = 1
  /\ \A m \in MatchesOf("secret") \cup MatchesOf("vuln") : ~OnComment(m)
  /\ Cardinality(FindingsOf("HIGH")) = 1
  /\ Cardinality(FindingsOf("MEDIUM")) = 1
  /\ Len(security_scan.issues) = 2
  /\ security_scan.issues[1].severity = "HIGH"
  /\ security_scan.issues[1].line = 2
  /\ ~security_scan.passed

\* ---- C26 as claimed: only secret-exposure matches are dropped on comment
\* lines; every vulnerability-pattern match yields a finding.
C26_Original ==
  Scanned =>
    /\ {At(j) : j \in FindingsOf("HIGH")} = {m \in MatchesOf("secret") : ~OnComment(m)}
    /\ {At(j) : j \in FindingsOf("MEDIUM")} = MatchesOf("vuln")

\* ---- C26: the comment-line exclusion applies to both rule families: a
\* match of either family on a comment line yields no finding, a match of
\* either family on any other line yields one.
C26_CommentExclusion ==
  Scanned =>
    \A family \in {"secret", "vuln"} : \A m \in MatchesOf(family) :
       (\E j \in DOMAIN security_scan.issues :
            At(j) = m /\ security_scan.issues[j].category = family)
         <=> ~OnComment(m)

\* a file whose only matches are a secret and a vulnerability pattern, both
\* on comment lines, passes the scan
C26_Witness ==
  /\ Scanned
  /\ security_scan.passed
  /\ \E m \in MatchesOf("secret") : OnComment(m)
  /\ \E m \in MatchesOf("vuln") : OnComment(m)

\* ---- C27: one stage executes at a time, the one selected, and the coding
\* loop takes the tasks in task-plan order: generation for a task starts only
\* when the files of all earlier tasks are written, and a stage execution in
\* the coding loop makes one generation call at most.
FirstTasks(n) == [j \in 1 .. n |-> j - 1]

C27_OneTaskAtATime ==
  /\ [][steps' = steps + 1 =>
          /\ node \in Nodes
          /\ runs' = [runs EXCEPT ![node] = @ + 1]]_vars
  /\ [][gen_calls' /= gen_calls =>
          /\ node = "coder"
          /\ Len(gen_calls') = Len(gen_calls) + 1
          /\ writes = FirstTasks(gen_calls'[Len(gen_calls')])
          /\ SubSeq(gen_calls', 1, Len(gen_calls)) = gen_calls]_vars
  /\ [][writes' /= writes =>
          /\ writes' = Append(writes, Len(writes))
          /\ gen_calls'[Len(gen_calls')] = Len(writes)]_vars
  /\ [](writes = FirstTasks(Len(writes)))

\* the second file was generated after the first was written on a second try
C27_Witness ==
  /\ gen_calls = <<0, 0, 1>>
  /\ writes = <<0, 1>>
  /\ state.status = "CODING_DONE"

\* ---- C28: every stage from architecting to final verification returns the
\* plan it received, and every stage from coding on also the task plan it
\* received; both are present.
AfterArchitect == {"coder", "security", "security_fixer", "final_verification"}
Returns(n) == node = n /\ steps' = steps + 1 /\ fatal' = "none"

C28_PlanUnchanged ==
  /\ [][\A n \in AfterArchitect \cup {"architect"} :
          Returns(n) => state'.plan = state.plan /\ state'.plan /= None]_vars
  /\ [][\A n \in AfterArchitect :
          Returns(n) => state'.task_plan = state.task_plan /\ state'.task_plan /= None]_vars

\* a run through remediation returned the plan and the task plan it made
C28_Witness ==
  /\ node = END
  /\ runs["security_fixer"] = 1
  /\ state.plan = 2
  /\ state.task_plan = 1

\* ---- C30: a run whose architecture stage returned an empty task list for a
\* non-empty plan ends with a fatal error; it makes no generation call for a
\* file, writes no file and never reports coding as done.
EmptyTasks == state.task_plan = 0 /\ state.plan /= None /\ state.plan >= 1

C30_EmptyTaskListIsFatal ==
  /\ [](EmptyTasks =>
          /\ gen_calls = <<>>
          /\ writes = <<>>
          /\ state.status /= "CODING_DONE"
          /\ outcome /= "nothing_left"
          /\ runs["security"] = 0
          /\ node /= END)
  /\ [][EmptyTasks => EmptyTasks']_vars
  /\ EmptyTasks ~> (fatal /= "none")

\* the coding stage refused the empty task list of a two-file plan
C30_Witness ==
  /\ EmptyTasks
  /\ state.plan = 2
  /\ fatal = "coder_empty_task_plan"
  /\ runs["coder"] = 1

\* ---- C29: the runs of one process draw on one limiter window per provider
\* (an admission of one run counts against every run), and a stage executed
\* by one run leaves the state of every other run as it was.
AdmittedInLastMinute(p) == {i \in DOMAIN admitted[p] : now - admitted[p][i] < 60}

C29_SharedLimiterOwnState ==
  /\ [][\A r \in Runs : r /= last_run' => pipelines'[r] = pipelines[r]]_vars
  /\ [](Len(admitted_by) = Len(admitted["gemini"]))
  /\ [](\A t \in 0 .. now : Cardinality(InWindow("gemini", t)) <= MaxCallsPerMinute)
  /\ [][(issued'.n = issued.n + 1
           /\ Cardinality(AdmittedInLastMinute("gemini")) >= MaxCallsPerMinute)
          => ~last_call'.can /\ admitted' = admitted]_vars

\* run 2 is refused by admissions that were all made by run 1, and the
\* cursor of run 1 is where run 1 left it
C29_Witness ==
  /\ last_run = 2
  /\ issued.checked /\ ~issued.can
  /\ Len(admitted_by) = MaxCallsPerMinute
  /\ \A i \in DOMAIN admitted_by : admitted_by[i] = 1
  /\ pipelines[1].coder_state.retry_attempts = MaxCallsPerMinute
  /\ pipelines[2].coder_state.retry_attempts = 1

\* ---- C31: after the clarifying stage the run moves on to planning when the
\* skip flag is set, no question was produced, or an optimized prompt is in
\* the state; it ends before planning only with questions pending and no
\* optimized prompt.
OptimizerStep == node = "prompt_optimizer" /\ steps' = steps + 1
Pending(s) ==
  ~s.skip_questions /\ ~s.optimized_prompt /\ s.questions /= None /\ s.questions > 0
\* the keys route_from_optimizer reads
RouterStates ==
  [skip_questions : BOOLEAN, optimized_prompt : BOOLEAN, questions : None .. MaxQuestions]

C31_ClarifyingRouting ==
  /\ [][OptimizerStep =>
          /\ fatal' = "none"
          /\ node' = IF Pending(state') THEN END ELSE "planner"]_vars
  /\ [](node = END /\ fatal = "none" /\ runs["planner"] = 0 => Pending(state))
  /\ [](\A s \in RouterStates :
          route_from_optimizer(s) = IF Pending(s) THEN END ELSE "planner")

\* the clarifying call returned no question and the planning stage ran next
C31_Witness ==
  /\ runs["prompt_optimizer"] = 1
  /\ runs["planner"] = 1
  /\ state.skip_questions
  /\ state.questions = 0

\* ---- C32: enforce_character_limit returns a prefix of the text of length
\* min(len(text), max): a text no longer than max unchanged, a longer one cut
\* to exactly max characters, and a second application returns the result of
\* the first.
IsPrefix(a, b) == Len(a) <= Len(b) /\ a = SubSeq(b, 1, Len(a))

C32_CharacterLimit ==
  /\ [](applied >= 1 =>
          /\ IsPrefix(limited, text)
          /\ Len(limited) = Min(Len(text), max_chars)
          /\ Len(text) <= max_chars => limited = text
          /\ Len(text) > max_chars => Len(limited) = max_chars)
  /\ [][applied = 1 /\ applied' = 2 => limited' = limited]_vars

\* a text of three characters cut to two, by the first application and again
\* by the second
C32_Witness ==
  /\ applied = 2
  /\ Len(text) = 3
  /\ max_chars = 2
  /\ limited = SubSeq(text, 1, 2)

\* ---- C33: in a run with a task plan of one task or more and no step limit,
\* if no task fails forever the run reaches final verification; if a task
\* is reached and never passed, the run stays in the coding stage on that
\* task for good and the audit stage never runs.
TaskIndices == 0 .. MaxFiles - 1
AtTask(i) == node = "coder" /\ Cursor(state).current_step_idx = i
Passed(i) == node /= "coder" \/ Cursor(state).current_step_idx > i

Count(seq, x) == Cardinality({i \in DOMAIN seq : seq[i] = x})

C34_ConcurrentChecks ==
  /\ \A t \in 0 .. now : Cardinality(InWindow(Shared, t)) <= MaxCallsPerMinute
  /\ (\A t \in Threads : pc[t] = "idle") =>
        \A i \in DOMAIN admitted[Shared] :
           now - admitted[Shared][i] < Window =>
              Count(calls[Shared], admitted[Shared][i])
                 = Count(admitted[Shared], admitted[Shared][i])

\* ---- C35: with rate limiting enabled, no trailing window of 60 seconds
\* holds more calls of llm.invoke than the configured maximum, the calls made
\* after a refused check and a sleep included.
IssuedInWindow(t) ==
  {i \in DOMAIN issue_times : t - Window < issue_times[i] /\ issue_times[i] <= t}

C35_IssuedWithinLimit ==
  \A t \in 0 .. now : Cardinality(IssuedInWindow(t)) <= MaxCallsPerMinute

\* ---- C36: the cursor moves past task i only in the stage execution in
\* which the write of task i's file was acknowledged; when the coding stage
\* reports 'done', every task of the task plan has an acknowledged write, and
\* the first acknowledged writes came in increasing task order.
Written == {writes[j] : j \in DOMAIN writes}
FirstWrite(i) == CHOOSE j \in DOMAIN writes : writes[j] = i /\ \A k \in 1 .. j - 1 : writes[k] /= i

C36_WriteBeforeAdvance ==
  /\ [][(CoderStep /\ HasCursor(state')
           /\ idx(state') /= Cursor(state).current_step_idx) =>
          /\ idx(state') = Cursor(state).current_step_idx + 1
          /\ writes' = Append(writes, Cursor(state).current_step_idx)]_vars
  /\ [](HasCursor(state) => \A i \in 0 .. idx(state) - 1 : i \in Written)
  /\ [](state.status = "CODING_DONE" =>
          /\ tasks(state) >= 1
          /\ \A i \in 0 .. tasks(state) - 1 : i \in Written)
  /\ [](\A i1, i2 \in Written : i1 < i2 => FirstWrite(i1) < FirstWrite(i2))

\* the coding stage reported 'done' for two tasks, the second written on the
\* attempt after a failed one
C36_Witness ==
  /\ node = "security"
  /\ state.status = "CODING_DONE"
  /\ tasks(state) = 2
  /\ gen_calls = <<0, 1, 1>>
  /\ writes = <<0, 1>>
  /\ backoff.retry = 1

\* ---- C37: the stages of a run execute in the order planning, architecting,
\* coding (once or more), auditing, remediating (or not), final verification;
\* each of them but coding executes once at most, and once planning has
\* started the run ends normally only after final verification.
Successors ==
  [ prompt_optimizer |-> {"planner", END},
    planner |-> {"architect"},
    architect |-> {"coder"},
    coder |-> {"coder", "security"},
    security |-> {"security_fixer", "final_verification"},
    security_fixer |-> {"final_verification"},
    final_verification |-> {END} ]
Before ==
  { <<"planner", "architect">>, <<"architect", "coder">>, <<"coder", "security">>,
    <<"security", "security_fixer">>, <<"security", "final_verification">> }

C37_StageOrder ==
  /\ [][steps' = steps + 1 =>
          IF fatal' = "none" THEN node' \in Successors[node] ELSE node' = node]_vars
  /\ [](\A n \in Nodes \ {"coder"} : runs[n] <= 1)
  /\ [](\A pair \in Before : runs[pair[2]] >= 1 => runs[pair[1]] >= 1)
  /\ [](runs["planner"] >= 1 /\ node = END =>
          /\ fatal = "none"
          /\ runs["final_verification"] = 1
          /\ outcome = "verified")

\* a run that ended after every stage from planning on, with three
\* executions of the coding stage and one remediation
C37_Witness ==
  /\ node = END
  /\ runs["planner"] = 1 /\ runs["architect"] = 1
  /\ runs["coder"] = 3
  /\ runs["security"] = 1 /\ runs["security_fixer"] = 1
  /\ runs["final_verification"] = 1

\* ---- C38: with two runs in one process, every file a run writes in coding
\* and remediation, and every file its audit scans, lies under the project
\* root its own planning stage selected.
C38_OwnProjectRoot ==
  \A r \in Runs : \A use \in touched[r] : use[2] = selected[r]

\* ---- C39: each provider has its own window: a check for one provider
\* leaves the other provider's timestamp list as it was, and a check for any
\* identifier other than 'gemini' is made against the groq limiter.
CheckedFor == IF issued'.provider = "gemini" THEN "gemini" ELSE "groq"

C39_PerProviderWindows ==
  /\ [][issued'.n = issued.n + 1 =>
          /\ last_call'.provider = CheckedFor
          /\ \A p \in Providers \ {CheckedFor} :
                calls'[p] = calls[p] /\ admitted'[p] = admitted[p]
          /\ issued'.can <=> Len(Prune(calls[CheckedFor])) < MaxCallsPerMinute
          /\ admitted'[CheckedFor] =
               IF issued'.can THEN Append(admitted[CheckedFor], now)
               ELSE admitted[CheckedFor]]_vars
  /\ [](\A p \in Providers : \A t \in 0 .. now :
          Cardinality(InWindow(p, t)) <= MaxCallsPerMinute)

\* a check for 'openai' is admitted by the groq limiter while the gemini
\* limiter is at its maximum
C39_Witness ==
  /\ issued.provider = "openai"
  /\ issued.can
  /\ last_call.provider = "groq"
  /\ Len(calls["groq"]) = 1
  /\ Len(Prune(calls["gemini"])) = MaxCallsPerMinute

\* ---- C40: the scan's result is made of the readable files with a listed
\* suffix alone: a file with another suffix, a file that cannot be read and a
\* missing root add no finding and raise nothing, and a tree whose risky
\* lines all lie in such files passes the scan and goes from the security
\* stage to final verification without the fixer ever running.
Live(line) == line.rule /= "none" /\ ~line.comment

RiskIn(kinds) ==
  \E k \in DOMAIN project.files :
     /\ project.files[k].kind \in kinds
     /\ \E i \in DOMAIN project.files[k].lines : Live(project.files[k].lines[i])

\* the tree with the lines of every file the scanner does not read blanked
Visible(p) ==
  [p EXCEPT !.files = [k \in DOMAIN p.files |->
                         IF p.files[k].kind = "source" THEN p.files[k]
                         ELSE [kind |-> "source", lines |-> <<>>]]]

C40_UnscannedFilesPass ==
  /\ [](Scanned => security_scan = scan_result(Visible(project)))
  /\ [](Scanned /\ ~project.exists =>
          security_scan.passed /\ security_scan.total_issues = 0)
  /\ [][(security_scan = NoScan /\ security_scan' /= NoScan /\ ~RiskIn({"source"})) =>
          /\ security_scan'.passed
          /\ security_scan'.issues = <<>>
          /\ fatal' = "none"
          /\ state'.status = "SECURITY_PASSED"
          /\ node' = "final_verification"]_vars
  /\ [](~RiskIn({"source"}) => runs["security_fixer"] = 0 /\ fix_calls = 0)

\* a run over a tree whose one file has another suffix and holds a secret
\* and a vulnerable call has ended verified without a fix
C40_Witness ==
  /\ project.exists
  /\ RiskIn({"other_suffix"})
  /\ \E k \in DOMAIN project.files :
        \E i, j \in DOMAIN project.files[k].lines :
           /\ project.files[k].lines[i] = [comment |-> FALSE, rule |-> "secret"]
           /\ project.files[k].lines[j] = [comment |-> FALSE, rule |-> "vuln"]
  /\ security_scan.passed
  /\ node = END
  /\ state.status = "VERIFICATION_COMPLETE"
  /\ runs["security"] = 1
  /\ runs["security_fixer"] = 0
====
